---------------------------- MODULE Spec2Model ----------------------------
(***************************************************************************)
(* Virtual sensor twin: sensor data model (BaseSensor, ADC, TH), the       *)
(* key-value helper, the metadata parser, the sensor wrappers and the      *)
(* SensorManager.                                                          *)
(*                                                                         *)
(* A std::string is a sequence of one-character strings.  Positions are    *)
(* 1-based; 0 stands for std::string::npos.  An Exception object is the    *)
(* one-element sequence <<Code>>; the null pointer is <<>>.                *)
(***************************************************************************)
EXTENDS Integers, Sequences, FiniteSets, TLC

VARIABLES Sensors,  \* SensorManager::Sensors, the collection in order
          out,      \* transport events of the last call, in order
          last      \* the last call: operation, request, what it raised,
                    \* and the sensors it called into

vars == <<Sensors, out, last>>

----------------------------------------------------------------------------
(* Error codes, enum ErrorCode *)
WARNING_CODE == 1
ERROR_CODE == 2
CRTICAL_ERROR_CODE == 3

----------------------------------------------------------------------------
(* Text constants of the protocol *)
kId == <<"i", "d">>
kStatus == <<"s", "t", "a", "t", "u", "s">>
kType == <<"t", "y", "p", "e">>
kValue == <<"v", "a", "l", "u", "e">>
kResolution == <<"r", "e", "s", "o", "l", "u", "t", "i", "o", "n">>
kPrecision == <<"p", "r", "e", "c", "i", "s", "i", "o", "n">>
kTemperature == <<"t", "e", "m", "p", "e", "r", "a", "t", "u", "r", "e">>
kHumidity == <<"h", "u", "m", "i", "d", "i", "t", "y">>
tADC == <<"A", "D", "C">>
tTH == <<"T", "H">>
Q == <<"?">>
AMP == <<"&">>
EQ == <<"=">>

UpperCase == <<"A", "B", "C", "D", "E", "F", "G", "H", "I", "J", "K", "L", "M",
               "N", "O", "P", "Q", "R", "S", "T", "U", "V", "W", "X", "Y", "Z">>
LowerCase == <<"a", "b", "c", "d", "e", "f", "g", "h", "i", "j", "k", "l", "m",
               "n", "o", "p", "q", "r", "s", "t", "u", "v", "w", "x", "y", "z">>

(* ::tolower on one character *)
ToLowerChar(c) ==
    IF \E i \in 1..Len(UpperCase) : UpperCase[i] = c
    THEN LowerCase[CHOOSE i \in 1..Len(UpperCase) : UpperCase[i] = c]
    ELSE c

(* std::transform(begin, end, begin, ::tolower) *)
ToLower(str) == [i \in 1..Len(str) |-> ToLowerChar(str[i])]

(* std::string::find(key, from): first position >= from where key occurs,  *)
(* 0 when there is none                                                    *)
RECURSIVE FindFrom(_, _, _)
FindFrom(str, key, from) ==
    IF from + Len(key) - 1 > Len(str) THEN 0
    ELSE IF \A j \in 1..Len(key) : str[from + j - 1] = key[j] THEN from
    ELSE FindFrom(str, key, from + 1)

(* getValueFromKeyValueLikeString: the text after the first occurrence of  *)
(* key and one more character, up to the next separator.  substr(pos) with *)
(* pos beyond the end of str throws std::out_of_range.                     *)
getValueFromKeyValueLikeString(str, key, separator) ==
    LET substr(pos, end) ==
            IF pos > Len(str) + 1 THEN [thrown |-> TRUE, value |-> <<>>]
            ELSE [thrown |-> FALSE,
                  value |-> IF end = 0 THEN SubSeq(str, pos, Len(str))
                            ELSE SubSeq(str, pos, end - 1)]
        from(pos) == substr(pos, FindFrom(str, <<separator>>, pos))
        found(p) == IF p = 0 THEN [thrown |-> FALSE, value |-> <<>>]
                    ELSE from(p + Len(key) + 1)
    IN found(FindFrom(str, key, 1))

(* splitString: the pieces between separators, empty pieces included *)
RECURSIVE splitString(_, _)
splitString(str, separator) ==
    LET cut(end) ==
            IF end = 0 THEN <<str>>
            ELSE <<SubSeq(str, 1, end - 1)>>
                 \o splitString(SubSeq(str, end + 1, Len(str)), separator)
    IN cut(FindFrom(str, <<separator>>, 1))

----------------------------------------------------------------------------
(* Metadata parser *)

EmptyMetadata == [UID |-> <<>>, Status |-> <<>>, Type |-> <<>>, Data |-> <<>>]

(* ParseMetadata for device responses: an unmarked text gives the empty    *)
(* record; otherwise the marker is erased and the text lower-cased.        *)
(* raised is "none" or "out_of_range".                                     *)
ParseMetadata(response) ==
    IF Len(response) < 1 \/ response[1] # "?"
    THEN [raised |-> "none", md |-> EmptyMetadata]
    ELSE LET metadata(body, uid, status) ==
                 IF uid.thrown \/ status.thrown
                 THEN [raised |-> "out_of_range", md |-> EmptyMetadata]
                 ELSE [raised |-> "none",
                       md |-> [UID |-> uid.value, Status |-> status.value,
                               Type |-> <<>>, Data |-> body]]
             parse(body) ==
                 metadata(body, getValueFromKeyValueLikeString(body, kId, "&"),
                          getValueFromKeyValueLikeString(body, kStatus, "&"))
         IN parse(ToLower(Tail(response)))

(* CheckMetadata of the response parser *)
CheckMetadata(md) == md.UID # <<>> /\ md.Data # <<>>

IsValid(md, uid) == CheckMetadata(md) /\ md.UID = uid

----------------------------------------------------------------------------
(* Sensor model: BaseSensor and its variants *)

Param(value, unit, dataType) ==
    [Value |-> value, Unit |-> unit, DataType |-> dataType]

(* BaseSensor::BaseSensor *)
BaseSensor(uid) ==
    [UID |-> uid, Type |-> <<>>, Status |-> "OK", Error |-> <<>>,
     redrawPenging |-> TRUE, isConfigsSync |-> FALSE, isValuesSync |-> FALSE,
     Values |-> <<>>, Configs |-> <<>>]

(* BaseSensor::addConfigParameter: insert or replace *)
addConfigParameter(s, key, param) ==
    [s EXCEPT !.Configs = [k \in (DOMAIN s.Configs) \cup {key} |->
                              IF k = key THEN param ELSE s.Configs[k]],
              !.isConfigsSync = FALSE]

(* BaseSensor::addValueParameter: insert or replace *)
addValueParameter(s, key, param) ==
    [s EXCEPT !.Values = [k \in (DOMAIN s.Values) \cup {key} |->
                             IF k = key THEN param ELSE s.Values[k]],
              !.isValuesSync = FALSE]

(* ADC::ADC and ADC::init *)
NewADC(uid) ==
    LET b == [BaseSensor(uid) EXCEPT !.Type = tADC, !.Error = <<>>]
        c == addConfigParameter(b, kResolution, Param(<<"1", "2">>, "bits", "INT"))
    IN addValueParameter(c, kValue, Param(<<"0">>, "", "INT"))

(* TH::TH and TH::init *)
NewTH(uid) ==
    LET b == [BaseSensor(uid) EXCEPT !.Type = tTH, !.Error = <<>>]
        c == addConfigParameter(b, kPrecision, Param(<<"2">>, "decimals", "INT"))
        t == addValueParameter(c, kTemperature, Param(<<"0">>, "Celsia", "FLOAT"))
    IN addValueParameter(t, kHumidity, Param(<<"0">>, "%", "INT"))

(* A factory that builds an ADC for a type it does not know *)
createSensorByType_DefaultADC(type, uid) ==
    IF type = tTH THEN <<NewTH(uid)>> ELSE <<NewADC(uid)>>

(* createSensorByType: <<sensor>> for a known type, <<>> for nullptr *)
createSensorByType(type, uid) ==
    IF type = tADC THEN <<NewADC(uid)>>
    ELSE IF type = tTH THEN <<NewTH(uid)>>
    ELSE <<>>

(* BaseSensor::setStatus *)
setStatus(s, status) ==
    IF status = <<>> THEN s
    ELSE IF status = <<"1">> THEN [s EXCEPT !.Status = "OK"]
    ELSE IF status = <<"-", "1">> THEN [s EXCEPT !.Status = "ERROR"]
    ELSE IF status = <<"0">> THEN [s EXCEPT !.Status = "OFFLINE"]
    ELSE s

(* setError without the final Status = ERROR *)
setError_KeepStatus(s, error) ==
    LET cleared == IF s.Error # <<>> THEN [s EXCEPT !.Status = "OK"] ELSE s
    IN [cleared EXCEPT !.Error = error]

(* BaseSensor::setError *)
setError(s, error) ==
    LET cleared == IF s.Error # <<>> THEN [s EXCEPT !.Status = "OK"] ELSE s
        stored == [cleared EXCEPT !.Error = error]
    IN IF error # <<>> /\ error[1] # WARNING_CODE
       THEN [stored EXCEPT !.Status = "ERROR"]
       ELSE stored


(* Character order of std::string comparison, for the characters in use *)
Ascii == <<"&", "-", "0", "1", "2", "3", "4", "5", "6", "7", "8", "9", ":",
           "=", "?">> \o UpperCase \o LowerCase

Ord(c) == CHOOSE i \in 1..Len(Ascii) : Ascii[i] = c

(* std::less<std::string> *)
LessStr(a, b) ==
    \E n \in 0..Len(a) :
        /\ n <= Len(b)
        /\ \A j \in 1..n : a[j] = b[j]
        /\ \/ n = Len(a) /\ n < Len(b)
           \/ n < Len(a) /\ n < Len(b) /\ Ord(a[n + 1]) < Ord(b[n + 1])

(* Iteration order of a std::map: its keys in ascending order *)
RECURSIVE SortedKeys(_)
SortedKeys(S) ==
    IF S = {} THEN <<>>
    ELSE LET first(m) == <<m>> \o SortedKeys(S \ {m})
         IN first(CHOOSE k \in S : \A o \in S \ {k} : LessStr(k, o))

(* Iteration orders of a std::unordered_map: any order of its keys *)
KeyOrders(S) ==
    {p \in [1..Cardinality(S) -> S] : \A i, j \in DOMAIN p : p[i] = p[j] => i = j}

(* A setConfig that stores a new parameter under the key: Unit and        *)
(* DataType are reset                                                      *)
setConfig_ResetsParam(s, key, value) ==
    IF key \in DOMAIN s.Configs
    THEN [s |-> [s EXCEPT !.Configs[key] = Param(value, "", "STRING"),
                          !.isConfigsSync = FALSE],
          raised |-> "none"]
    ELSE [s |-> s, raised |-> "ConfigurationNotFoundException"]

(* BaseSensor::setConfig *)
setConfig(s, key, value) ==
    IF key \in DOMAIN s.Configs
    THEN [s |-> [s EXCEPT !.Configs[key].Value = value, !.isConfigsSync = FALSE],
          raised |-> "none"]
    ELSE [s |-> s, raised |-> "ConfigurationNotFoundException"]

(* A setValue that writes through operator[] without looking the key up:  *)
(* an absent key is inserted                                               *)
setValue_Inserting(s, key, value) ==
    [s |-> [s EXCEPT !.Values =
               [k \in DOMAIN s.Values \cup {key} |->
                   IF k = key
                   THEN Param(value, <<>>, <<>>)
                   ELSE s.Values[k]]],
     raised |-> "none"]

(* BaseSensor::setValue *)
setValue(s, key, value) ==
    IF key \in DOMAIN s.Values
    THEN [s |-> [s EXCEPT !.Values[key].Value = value], raised |-> "none"]
    ELSE [s |-> s, raised |-> "ValueNotFoundException"]

Digits == <<"0", "1", "2", "3", "4", "5", "6", "7", "8", "9">>
IsDigit(c) == \E d \in DOMAIN Digits : Digits[d] = c
DigitValue(c) == (CHOOSE d \in DOMAIN Digits : Digits[d] = c) - 1

(* The digits std::stoi reads from position i on, as a number; it stops at *)
(* the first character that is no digit                                    *)
RECURSIVE stoiDigits(_, _, _)
stoiDigits(str, i, acc) ==
    IF i > Len(str) \/ ~IsDigit(str[i]) THEN acc
    ELSE stoiDigits(str, i + 1, 10 * acc + DigitValue(str[i]))

(* std::stoi: an optional sign and the digits after it; std::invalid_argument *)
(* when no digit stands there                                              *)
stoi(str) ==
    LET signed(first, sign) ==
            IF first > Len(str) \/ ~IsDigit(str[first])
            THEN [thrown |-> TRUE, value |-> 0]
            ELSE [thrown |-> FALSE, value |-> sign * stoiDigits(str, first, 0)]
    IN IF str # <<>> /\ str[1] = "-" THEN signed(2, -1) ELSE signed(1, 1)

(* convertStringToType<int> *)
convertStringToInt(str) ==
    LET converted(r) ==
            IF r.thrown THEN [raised |-> "InvalidDataTypeException", value |-> 0]
            ELSE [raised |-> "none", value |-> r.value]
    IN IF str = <<>> THEN [raised |-> "none", value |-> 0]
       ELSE converted(stoi(str))

(* BaseSensor::getValue<int> *)
getValue(s, key) ==
    LET read(value) ==
            IF value = <<>> THEN [raised |-> "ValueNotFoundException", value |-> 0]
            ELSE convertStringToInt(value)
    IN read(IF key \in DOMAIN s.Values THEN s.Values[key].Value ELSE <<>>)

(* The loop of BaseSensor::config and BaseSensor::update over one table,   *)
(* in the order given; a throwing lookup leaves the loop where it stands.  *)
RECURSIVE applyPairs(_, _, _, _)
applyPairs(table, text, order, i) ==
    IF i > Len(order) THEN [table |-> table, raised |-> "none"]
    ELSE LET assign(r) ==
                 IF r.thrown THEN [table |-> table, raised |-> "out_of_range"]
                 ELSE applyPairs(IF r.value # <<>>
                                 THEN [table EXCEPT ![order[i]].Value = r.value]
                                 ELSE table,
                                 text, order, i + 1)
         IN assign(getValueFromKeyValueLikeString(text, order[i], "&"))

(* A config that lower-cases the text before it looks the keys up *)
config_IgnoreCase(s, cfg) ==
    LET store(r) == [s |-> [s EXCEPT !.Configs = r.table], raised |-> r.raised]
    IN store(applyPairs(s.Configs, ToLower(cfg), SortedKeys(DOMAIN s.Configs), 1))

(* BaseSensor::config *)
config(s, cfg) ==
    LET store(r) == [s |-> [s EXCEPT !.Configs = r.table], raised |-> r.raised]
    IN store(applyPairs(s.Configs, cfg, SortedKeys(DOMAIN s.Configs), 1))

(* BaseSensor::update, order: the iteration order of Values in this call *)
update(s, upd, order) ==
    LET store(r) == [s |-> [s EXCEPT !.Values = r.table], raised |-> r.raised]
    IN store(applyPairs(s.Values, upd, order, 1))

(* A draw that leaves the flag as it finds it *)
draw_KeepsFlag(s) ==
    s

(* ADC::draw and TH::draw *)
draw(s) ==
    IF ~s.redrawPenging THEN s ELSE [s EXCEPT !.redrawPenging = FALSE]

----------------------------------------------------------------------------
(* Transport.  A send or a receive either succeeds (thrown = <<>>) or      *)
(* throws an Exception (thrown = <<Code>>).                                *)

SendEvent(text, thrown) == [ev |-> "send", text |-> text, thrown |-> thrown]
RecvEvent(text, thrown) == [ev |-> "recv", text |-> text, thrown |-> thrown]

RECURSIVE encodeConfigs(_, _)
encodeConfigs(table, order) ==
    IF order = <<>> THEN <<>>
    ELSE AMP \o Head(order) \o EQ \o table[Head(order)].Value
         \o encodeConfigs(table, Tail(order))

(* The request built by BaseSensor::syncConfigs *)
configRequest(s) ==
    Q \o <<"C", "O", "N", "F", "I", "G">> \o AMP \o kId \o EQ \o s.UID
      \o encodeConfigs(s.Configs, SortedKeys(DOMAIN s.Configs))

(* The request built by BaseSensor::syncValues *)
updateRequest(s) ==
    Q \o <<"U", "P", "D", "A", "T", "E">> \o AMP \o kId \o EQ \o s.UID

Result(s, raised, error, events) ==
    [s |-> s, raised |-> raised, error |-> error, out |-> events]

(* syncConfigs without the final isConfigsSync = true *)
syncConfigs_NoMark(s, tr) ==
    Result(s, IF tr.sendCfg # <<>> THEN "Exception" ELSE "none", tr.sendCfg,
           <<SendEvent(configRequest(s), tr.sendCfg)>>)

(* BaseSensor::syncConfigs *)
syncConfigs(s, tr) ==
    LET send(sent) ==
            IF tr.sendCfg # <<>> THEN Result(s, "Exception", tr.sendCfg, <<sent>>)
            ELSE Result([s EXCEPT !.isConfigsSync = TRUE], "none", <<>>, <<sent>>)
    IN send(SendEvent(configRequest(s), tr.sendCfg))

(* A syncValues that reads the response before it sends the request *)
syncValues_ReceiveFirst(s, tr, order) ==
    LET s0 == [s EXCEPT !.isValuesSync = FALSE]
        applied(md, upd, events) ==
            IF upd.raised # "none" THEN Result(upd.s, upd.raised, <<>>, events)
            ELSE Result([setStatus(upd.s, md.Status)
                            EXCEPT !.redrawPenging = TRUE, !.isValuesSync = TRUE],
                        "none", <<>>, events)
        received(parsed, events) ==
            IF parsed.raised # "none" THEN Result(s0, parsed.raised, <<>>, events)
            ELSE IF ~IsValid(parsed.md, s.UID) THEN Result(s0, "none", <<>>, events)
            ELSE applied(parsed.md, update(s0, parsed.md.Data, order), events)
        exchange(sent, rcvd) ==
            IF tr.sendUpd # <<>> THEN Result(s0, "Exception", tr.sendUpd, <<sent>>)
            ELSE IF tr.recv.thrown # <<>>
            THEN Result(s0, "Exception", tr.recv.thrown, <<sent, rcvd>>)
            ELSE received(ParseMetadata(tr.recv.text), <<rcvd, sent>>)
    IN exchange(SendEvent(updateRequest(s), tr.sendUpd),
                RecvEvent(tr.recv.text, tr.recv.thrown))

(* BaseSensor::syncValues *)
syncValues(s, tr, order) ==
    LET s0 == [s EXCEPT !.isValuesSync = FALSE]
        applied(md, upd, events) ==
            IF upd.raised # "none" THEN Result(upd.s, upd.raised, <<>>, events)
            ELSE Result([setStatus(upd.s, md.Status)
                            EXCEPT !.redrawPenging = TRUE, !.isValuesSync = TRUE],
                        "none", <<>>, events)
        received(parsed, events) ==
            IF parsed.raised # "none" THEN Result(s0, parsed.raised, <<>>, events)
            ELSE IF ~IsValid(parsed.md, s.UID) THEN Result(s0, "none", <<>>, events)
            ELSE applied(parsed.md, update(s0, parsed.md.Data, order), events)
        exchange(sent, rcvd) ==
            IF tr.sendUpd # <<>> THEN Result(s0, "Exception", tr.sendUpd, <<sent>>)
            ELSE IF tr.recv.thrown # <<>>
            THEN Result(s0, "Exception", tr.recv.thrown, <<sent, rcvd>>)
            ELSE received(ParseMetadata(tr.recv.text), <<sent, rcvd>>)
    IN exchange(SendEvent(updateRequest(s), tr.sendUpd),
                RecvEvent(tr.recv.text, tr.recv.thrown))

(* synchronize without the test of isValuesSync *)
synchronize_AlwaysPull(s, tr, order) ==
    LET join(c, v) == [v EXCEPT !.out = c.out \o v.out]
        values(c) == IF c.raised # "none" THEN c
                     ELSE join(c, syncValues(c.s, tr, order))
    IN values(IF ~s.isConfigsSync THEN syncConfigs(s, tr)
              ELSE Result(s, "none", <<>>, <<>>))

(* synchronize without the test of isConfigsSync *)
synchronize_AlwaysPush(s, tr, order) ==
    LET join(c, v) == [v EXCEPT !.out = c.out \o v.out]
        values(c) == IF c.raised # "none" THEN c
                     ELSE IF c.s.isValuesSync THEN c
                     ELSE join(c, syncValues(c.s, tr, order))
    IN values(syncConfigs(s, tr))

(* BaseSensor::synchronize *)
synchronize(s, tr, order) ==
    LET join(c, v) == [v EXCEPT !.out = c.out \o v.out]
        values(c) == IF c.raised # "none" THEN c
                     ELSE IF c.s.isValuesSync THEN c
                     ELSE join(c, syncValues(c.s, tr, order))
    IN values(IF ~s.isConfigsSync THEN syncConfigs(s, tr)
              ELSE Result(s, "none", <<>>, <<>>))

----------------------------------------------------------------------------
(* Wrappers of sensors.cpp: catch (const Exception &) stores the error on  *)
(* the sensor; any other exception leaves the wrapper.                     *)

(* A syncSensor whose catch block stores nothing on the sensor *)
syncSensor_Swallow(s, tr, order) ==
    LET catch(r) == IF r.raised = "Exception"
                    THEN Result(r.s, "none", <<>>, r.out)
                    ELSE r
    IN catch(synchronize(s, tr, order))

syncSensor(s, tr, order) ==
    LET catch(r) == IF r.raised = "Exception"
                    THEN Result(setError(r.s, r.error), "none", <<>>, r.out)
                    ELSE r
    IN catch(synchronize(s, tr, order))

(* update and config throw no Exception of their own; what the string     *)
(* lookup throws is no Exception and leaves the wrapper                    *)
updateSensor(s, upd, order) ==
    LET catch(r) == Result(r.s, r.raised, <<>>, <<>>)
    IN catch(update(s, upd, order))

configSensor(s, cfg) ==
    LET catch(r) == Result(r.s, r.raised, <<>>, <<>>)
    IN catch(config(s, cfg))

drawSensor(s) == Result(draw(s), "none", <<>>, <<>>)

(* BaseSensor::print changes nothing *)
printSensor(s) == Result(s, "none", <<>>, <<>>)

----------------------------------------------------------------------------
(* Request parser of SensorManager::manage: ParseMetadata for inbound      *)
(* requests throws on a missing marker, id or type; raised is "none",      *)
(* "Exception" (a ParseMetadataException) or "out_of_range".               *)
ParseRequest(request) ==
    IF Len(request) < 1 \/ request[1] # "?"
    THEN [raised |-> "Exception", md |-> EmptyMetadata]
    ELSE LET typed(body, uid, type) ==
                 IF type.thrown THEN [raised |-> "out_of_range", md |-> EmptyMetadata]
                 ELSE IF type.value = <<>>
                 THEN [raised |-> "Exception", md |-> EmptyMetadata]
                 ELSE [raised |-> "none",
                       md |-> [UID |-> uid.value, Status |-> <<>>,
                               Type |-> type.value, Data |-> body]]
             identified(body, uid) ==
                 IF uid.thrown THEN [raised |-> "out_of_range", md |-> EmptyMetadata]
                 ELSE IF uid.value = <<>>
                 THEN [raised |-> "Exception", md |-> EmptyMetadata]
                 ELSE typed(body, uid,
                            getValueFromKeyValueLikeString(body, kType, "&"))
             parse(body) ==
                 identified(body, getValueFromKeyValueLikeString(body, kId, "&"))
         IN parse(Tail(request))

(* CheckMetadata of the request parser *)
CheckRequest(md) == md.UID # <<>> /\ md.Type # <<>> /\ md.Data # <<>>

----------------------------------------------------------------------------
(* SensorManager.  A collection is a sequence of sensors; a result is the  *)
(* collection afterwards, what the call raised to its caller, the          *)
(* transport events and the positions of the sensors called into.          *)

MResult(sensors, raised, events, calls) ==
    [sensors |-> sensors, raised |-> raised, out |-> events, calls |-> calls]

(* A lookup that returns the last sensor with this UID *)
getSensor_Last(sensors, uid) ==
    LET hits == {i \in DOMAIN sensors : sensors[i].UID = uid}
    IN IF hits = {} THEN 0 ELSE CHOOSE i \in hits : \A j \in hits : i >= j

(* SensorManager::getSensor: position of the first sensor with this UID,   *)
(* 0 for nullptr                                                           *)
getSensor(sensors, uid) ==
    LET hits == {i \in DOMAIN sensors : sensors[i].UID = uid}
    IN IF hits = {} THEN 0 ELSE CHOOSE i \in hits : \A j \in hits : i <= j

(* SensorManager::addSensor; created is <<sensor>> or <<>> for nullptr *)
addSensor(sensors, created) ==
    IF created = <<>> THEN sensors ELSE Append(sensors, created[1])

(* createSensorList(memory): the fixed list *)
createSensorList ==
    <<NewADC(<<"0">>), NewADC(<<"1">>), NewTH(<<"2">>)>>

(* createSensorList(memory, stringSource): one sensor per non-empty piece  *)
(* of known type                                                           *)
RECURSIVE createSensorsFrom(_)
createSensorsFrom(pieces) ==
    IF pieces = <<>> THEN <<>>
    ELSE LET create(sensorStr, colon) ==
                 IF sensorStr = <<>> THEN <<>>
                 ELSE createSensorByType(
                          SubSeq(sensorStr, colon + 1, Len(sensorStr)),
                          IF colon = 0 THEN sensorStr
                          ELSE SubSeq(sensorStr, 1, colon - 1))
         IN create(Head(pieces), FindFrom(Head(pieces), <<":">>, 1))
            \o createSensorsFrom(Tail(pieces))

createSensorListFrom(stringSource) ==
    createSensorsFrom(splitString(stringSource, "&"))

initRequest == Q \o <<"I", "N", "I", "T">>

(* SensorManager::init(fromRequest); tr: what the transport does *)
init(sensors, fromRequest, tr) ==
    LET exchange(sent, rcvd) ==
            IF tr.sendUpd # <<>> THEN MResult(sensors, "Exception", <<sent>>, <<>>)
            ELSE IF tr.recv.thrown # <<>>
            THEN MResult(sensors, "Exception", <<sent, rcvd>>, <<>>)
            ELSE IF Len(tr.recv.text) < 1 \/ tr.recv.text[1] # "?"
            THEN MResult(createSensorList, "none", <<sent, rcvd>>, <<>>)
            ELSE MResult(createSensorListFrom(Tail(tr.recv.text)), "none",
                         <<sent, rcvd>>, <<>>)
    IN IF ~fromRequest THEN MResult(createSensorList, "none", <<>>, <<>>)
       ELSE exchange(SendEvent(initRequest, tr.sendUpd),
                     RecvEvent(tr.recv.text, tr.recv.thrown))

(* erase without the clear: the sensors are deleted but stay listed *)
erase_KeepsSensors(sensors) ==
    MResult(sensors, "none", <<>>, [i \in DOMAIN sensors |-> i])

(* SensorManager::erase: every sensor is deleted, then the list cleared *)
erase(sensors) ==
    MResult(<<>>, "none", <<>>, [i \in DOMAIN sensors |-> i])

(* A wrapper of sensors.cpp applied to the sensor at position i; position  *)
(* 0 is nullptr, which every wrapper returns from at once                  *)
OnSensor(sensors, i, r) ==
    IF i = 0 THEN MResult(sensors, "none", <<>>, <<>>)
    ELSE MResult([sensors EXCEPT ![i] = r.s], r.raised, r.out, <<i>>)

(* SensorManager::sync(id) *)
sync(sensors, id, tr, order) ==
    LET on(i) == IF i = 0 THEN MResult(sensors, "none", <<>>, <<>>)
                 ELSE OnSensor(sensors, i, syncSensor(sensors[i], tr, order))
    IN on(getSensor(sensors, id))

(* SensorManager::print(uid) *)
print(sensors, uid) ==
    LET on(i) == IF i = 0 THEN MResult(sensors, "none", <<>>, <<>>)
                 ELSE OnSensor(sensors, i, printSensor(sensors[i]))
    IN on(getSensor(sensors, uid))

(* One iteration of a loop over the collection: r is what the wrapper did  *)
(* to the sensor at position i; acc is the result of the iterations before *)
Step(acc, i, r) ==
    MResult([acc.sensors EXCEPT ![i] = r.s], r.raised, acc.out \o r.out,
            Append(acc.calls, i))

(* SensorManager::print(): printSensor on each sensor in order; an         *)
(* exception that leaves the wrapper leaves the loop                       *)
RECURSIVE printLoop(_, _)
printLoop(acc, i) ==
    IF i > Len(acc.sensors) \/ acc.raised # "none" THEN acc
    ELSE printLoop(Step(acc, i, printSensor(acc.sensors[i])), i + 1)

printAll(sensors) == printLoop(MResult(sensors, "none", <<>>, <<>>), 1)

(* SensorManager::redraw: drawSensor on each sensor in order *)
RECURSIVE redrawLoop(_, _)
redrawLoop(acc, i) ==
    IF i > Len(acc.sensors) \/ acc.raised # "none" THEN acc
    ELSE redrawLoop(Step(acc, i, drawSensor(acc.sensors[i])), i + 1)

redraw(sensors) == redrawLoop(MResult(sensors, "none", <<>>, <<>>), 1)

(* SensorManager::resync as a loop of syncSensor; trs[i], orders[i]: what  *)
(* the transport does and how Values iterates while sensor i is handled    *)
RECURSIVE resyncLoop(_, _, _, _)
resyncLoop(acc, i, trs, orders) ==
    IF i > Len(acc.sensors) \/ acc.raised # "none" THEN acc
    ELSE resyncLoop(Step(acc, i, syncSensor(acc.sensors[i], trs[i], orders[i])),
                    i + 1, trs, orders)

resyncEach(sensors, trs, orders) ==
    resyncLoop(MResult(sensors, "none", <<>>, <<>>), 1, trs, orders)

updateAllRequest == Q \o <<"U", "P", "D", "A", "T", "E">>

(* The loop of the batch SensorManager::resync over the pieces of the      *)
(* response                                                                *)
RECURSIVE applyResponses(_, _, _, _)
applyResponses(sensors, responses, orders, calls) ==
    IF responses = <<>> THEN MResult(sensors, "none", <<>>, calls)
    ELSE LET updated(i, r) ==
                 IF r.raised # "none"
                 THEN MResult([sensors EXCEPT ![i] = r.s], r.raised, <<>>,
                              Append(calls, i))
                 ELSE applyResponses([sensors EXCEPT ![i] = r.s], Tail(responses),
                                     orders, Append(calls, i))
             found(md, i) ==
                 IF i = 0 THEN applyResponses(sensors, Tail(responses), orders, calls)
                 ELSE updated(i, updateSensor(sensors[i], md.Data, orders[i]))
             parsed(p) ==
                 IF p.raised # "none" THEN MResult(sensors, p.raised, <<>>, calls)
                 ELSE IF ~CheckMetadata(p.md)
                 THEN applyResponses(sensors, Tail(responses), orders, calls)
                 ELSE found(p.md, getSensor(sensors, p.md.UID))
         IN parsed(ParseMetadata(Head(responses)))

(* SensorManager::resync as one batch request *)
resync(sensors, tr, orders) ==
    LET applied(r, events) == [r EXCEPT !.out = events]
        exchange(sent, rcvd) ==
            IF tr.sendUpd # <<>> THEN MResult(sensors, "Exception", <<sent>>, <<>>)
            ELSE IF tr.recv.thrown # <<>>
            THEN MResult(sensors, "Exception", <<sent, rcvd>>, <<>>)
            ELSE applied(applyResponses(sensors, splitString(tr.recv.text, "?"),
                                        orders, <<>>),
                         <<sent, rcvd>>)
    IN exchange(SendEvent(updateAllRequest, tr.sendUpd),
                RecvEvent(tr.recv.text, tr.recv.thrown))

(* SensorManager::manage *)
manage(sensors, request, orders) ==
    LET found(md, i) ==
            IF i = 0 THEN MResult(sensors, "none", <<>>, <<>>)
            ELSE OnSensor(sensors, i, updateSensor(sensors[i], md.Data, orders[i]))
        parsed(p) ==
            IF p.raised = "Exception" THEN MResult(sensors, "none", <<>>, <<>>)
            ELSE IF p.raised # "none" THEN MResult(sensors, p.raised, <<>>, <<>>)
            ELSE IF ~CheckRequest(p.md) THEN MResult(sensors, "none", <<>>, <<>>)
            ELSE found(p.md, getSensor(sensors, p.md.UID))
    IN IF request = <<>> THEN MResult(sensors, "none", <<>>, <<>>)
       ELSE parsed(ParseRequest(request))

----------------------------------------------------------------------------
(* Inputs *)

kOffset == <<"o", "f", "f", "s", "e", "t">>
KeyInputs == {kResolution, kPrecision, kValue, kTemperature, kHumidity, kOffset}

ErrInputs == {<<>>, <<WARNING_CODE>>, <<ERROR_CODE>>}
Faults == {<<>>, <<ERROR_CODE>>}
StatusInputs == {<<>>, <<"1">>, <<"-", "1">>, <<"0">>, <<"5">>}
NewValue == <<"7">>

Pair(k, v) == k \o EQ \o v

RECURSIVE Join(_)
Join(parts) ==
    IF Len(parts) = 0 THEN <<>>
    ELSE IF Len(parts) = 1 THEN parts[1]
    ELSE parts[1] \o AMP \o Join(Tail(parts))

(* Texts a device may answer to the pull request of sensor s: nothing      *)
(* (timeout), unmarked, bare marker, foreign id, well-formed with each     *)
(* status, upper-case without status, some keys only, and texts cut off    *)
(* after a key.                                                            *)
DeviceTexts(s) ==
    LET texts(id, foreign, all, one, cut) ==
            {<<>>,
             Join(<<id, all>>),
             Q,
             Q \o Join(<<foreign, Pair(kStatus, <<"1">>), all>>),
             Q \o Join(<<foreign, kStatus>>),
             Q \o Join(<<id, Pair(kStatus, <<"1">>), all>>),
             Q \o Join(<<id, Pair(kStatus, <<"-", "1">>), all>>),
             Q \o Join(<<id, Pair(kStatus, <<"0">>), all>>),
             Q \o Join(<<id, Pair(kStatus, <<"5">>), one>>),
             Q \o Join(<<<<"I", "D">> \o EQ \o s.UID, one>>),
             Q \o Join(<<id, Pair(kStatus, <<"1">>)>>),
             Q \o Join(<<id, cut>>)}
        over(keys) ==
            texts(Pair(kId, s.UID),
                  Pair(kId, <<"9">>),
                  Join([i \in 1..Len(keys) |-> Pair(keys[i], NewValue)]),
                  Pair(keys[1], NewValue),
                  Join([i \in 1..Len(keys) |->
                           IF i = 1 THEN keys[i] ELSE Pair(keys[i], NewValue)]))
    IN over(SortedKeys(DOMAIN s.Values))

(* What the transport does in one synchronize call of sensor s; a part     *)
(* the call does not reach is left at its default.                         *)
Transports(s) ==
    [sendCfg : IF s.isConfigsSync THEN {<<>>} ELSE Faults,
     sendUpd : IF s.isValuesSync THEN {<<>>} ELSE Faults,
     recv : IF s.isValuesSync THEN {[text |-> <<>>, thrown |-> <<>>]}
            ELSE {[text |-> x, thrown |-> <<>>] : x \in DeviceTexts(s)}
                 \cup {[text |-> <<>>, thrown |-> f] : f \in Faults \ {<<>>}}]

(* Texts given to config and update for a table with these keys: all keys, *)
(* one key behind an id, a key name alone, and a text naming no key        *)
PairTexts(keyset) ==
    LET over(keys) ==
            {Join([i \in 1..Len(keys) |-> Pair(keys[i], NewValue)]),
             Join(<<Pair(kId, <<"0">>), Pair(keys[Len(keys)], NewValue)>>),
             Join([i \in 1..Len(keys) |->
                      IF i = 1 THEN keys[i] ELSE Pair(keys[i], NewValue)]),
             <<"b", "l", "b", "o", "s", "t">>}
    IN over(SortedKeys(keyset))

(* The record of a call: the operation, the text or key handed to it (for *)
(* the calls that take one), what it raised to its caller, and the         *)
(* positions                                                               *)
(* in the collection of the sensors it called into, in order               *)
Call(op, arg, raised, calls) ==
    [op |-> op, arg |-> arg, raised |-> raised, calls |-> calls]

----------------------------------------------------------------------------
(* The sensor as a state machine: every public operation of one sensor     *)

(* One sensor, as created by createSensorByType *)
Init ==
    /\ Sensors \in {createSensorByType(tADC, <<"0">>),
                    createSensorByType(tTH, <<"2">>)}
    /\ out = <<>>
    /\ last = Call("create", <<>>, "none", <<1>>)

(* The effect of a call on sensor i; r: the sensor afterwards, what the    *)
(* call raised and the transport events                                    *)
DoneWith(i, r, op, arg) ==
    /\ Sensors' = [Sensors EXCEPT ![i] = r.s]
    /\ out' = r.out
    /\ last' = Call(op, arg, r.raised, <<i>>)

Done(i, r, op) == DoneWith(i, r, op, <<>>)

(* The result of a call that uses no transport *)
Local(r) == Result(r.s, r.raised, <<>>, <<>>)

SetError ==
    \E i \in DOMAIN Sensors :
      \E e \in ErrInputs :
        Done(i, Result(setError(Sensors[i], e), "none", <<>>, <<>>), "setError")

SetStatus ==
    \E i \in DOMAIN Sensors :
      \E st \in StatusInputs :
        Done(i, Result(setStatus(Sensors[i], st), "none", <<>>, <<>>), "setStatus")

SetConfig ==
    \E i \in DOMAIN Sensors :
      \E k \in KeyInputs :
        Done(i, Local(setConfig(Sensors[i], k, NewValue)), "setConfig")

SetValue ==
    \E i \in DOMAIN Sensors :
      \E k \in KeyInputs :
        Done(i, Local(setValue(Sensors[i], k, NewValue)), "setValue")

(* A parameter is registered again under its key, as at construction *)
AddConfigParameter ==
    \E i \in DOMAIN Sensors :
      \E k \in DOMAIN Sensors[i].Configs :
        Done(i, Result(addConfigParameter(Sensors[i], k,
                          createSensorByType(Sensors[i].Type,
                                             Sensors[i].UID)[1].Configs[k]),
                       "none", <<>>, <<>>),
             "addConfigParameter")

AddValueParameter ==
    \E i \in DOMAIN Sensors :
      \E k \in DOMAIN Sensors[i].Values :
        Done(i, Result(addValueParameter(Sensors[i], k,
                          createSensorByType(Sensors[i].Type,
                                             Sensors[i].UID)[1].Values[k]),
                       "none", <<>>, <<>>),
             "addValueParameter")

Config ==
    \E i \in DOMAIN Sensors :
      \E cfg \in PairTexts(DOMAIN Sensors[i].Configs) :
        Done(i, Local(config(Sensors[i], cfg)), "config")

Update ==
    \E i \in DOMAIN Sensors :
      \E upd \in PairTexts(DOMAIN Sensors[i].Values),
       order \in KeyOrders(DOMAIN Sensors[i].Values) :
        Done(i, Local(update(Sensors[i], upd, order)), "update")

Synchronize ==
    \E i \in DOMAIN Sensors :
      \E tr \in Transports(Sensors[i]), order \in KeyOrders(DOMAIN Sensors[i].Values) :
        Done(i, synchronize(Sensors[i], tr, order), "synchronize")

SyncSensor ==
    \E i \in DOMAIN Sensors :
      \E tr \in Transports(Sensors[i]), order \in KeyOrders(DOMAIN Sensors[i].Values) :
        Done(i, syncSensor(Sensors[i], tr, order), "syncSensor")

Draw ==
    \E i \in DOMAIN Sensors :
        Done(i, Result(draw(Sensors[i]), "none", <<>>, <<>>), "draw")

Next ==
    \/ SetError
    \/ SetStatus
    \/ SetConfig
    \/ SetValue
    \/ AddConfigParameter
    \/ AddValueParameter
    \/ Config
    \/ Update
    \/ Synchronize
    \/ SyncSensor
    \/ Draw

Spec == Init /\ [][Next]_vars

----------------------------------------------------------------------------
(* Properties of one sensor, over Spec *)

StartsWith(str, prefix) ==
    Len(str) >= Len(prefix) /\ SubSeq(str, 1, Len(prefix)) = prefix

IsConfigPush(e) ==
    e.ev = "send" /\ StartsWith(e.text, Q \o <<"C", "O", "N", "F", "I", "G">>)

SyncOps == {"synchronize", "syncSensor"}

(* The events of out in which a receive returned text *)
Received(events) ==
    {j \in DOMAIN events : events[j].ev = "recv" /\ events[j].thrown = <<>>}

StatusFollowsError(s) ==
    /\ (s.Error # <<>> /\ s.Error[1] # WARNING_CODE) => s.Status = "ERROR"
    /\ s.Error = <<>> => s.Status = "OK"

(* C1 as stated: in every reachable state, Status is ERROR when Error is   *)
(* set with a code other than WARNING_CODE and OK when Error is null.      *)
C1_StatusFollowsErrorAlways ==
    \A i \in DOMAIN Sensors : StatusFollowsError(Sensors[i])

(* A step in which setStatus acted: called directly, or by a synchronize   *)
(* that accepted the response                                              *)
StatusApplied ==
    \/ last'.op = "setStatus"
    \/ /\ last'.op \in SyncOps
       /\ \E i \in DOMAIN Sensors :
             ~Sensors[i].isValuesSync /\ Sensors'[i].isValuesSync

(* C1 amended: setError with an error whose code is not WARNING_CODE       *)
(* leaves Status = ERROR; the relation between Error and Status (ERROR     *)
(* when Error is set with a code other than WARNING_CODE, OK when Error is *)
(* null) holds after construction and is kept by every step of every       *)
(* sensor operation in which setStatus does not act.                       *)
C1_StatusFollowsErrorUnlessSetStatus ==
    [][/\ (C1_StatusFollowsErrorAlways /\ ~StatusApplied)
             => C1_StatusFollowsErrorAlways'
       /\ \A i \in DOMAIN Sensors :
             (/\ last'.op = "setError"
              /\ last'.calls = <<i>>
              /\ Sensors'[i].Error # <<>>
              /\ Sensors'[i].Error[1] # WARNING_CODE)
             => Sensors'[i].Status = "ERROR"]_vars

(* C1 witness: setError has stored an error above warning on a sensor      *)
(* whose Status is ERROR.                                                  *)
C1_Witness ==
    /\ last.op = "setError"
    /\ Sensors[1].Error = <<ERROR_CODE>>
    /\ Sensors[1].Status = "ERROR"

(* A step that successfully mutated a value parameter of sensor i *)
ValueMutated(i) ==
    /\ last'.op \in {"setValue", "update", "addValueParameter"}
    /\ last'.calls = <<i>>
    /\ last'.raised = "none"
    /\ last'.op = "update" => Sensors'[i].Values # Sensors[i].Values

(* C2: after a successful mutation of a value parameter (setValue on an    *)
(* existing key, update overwriting a value, addValueParameter) the sensor *)
(* has redrawPenging = true and isValuesSync = false.                      *)
C2_ValueMutationFlags ==
    [][\A i \in DOMAIN Sensors :
          ValueMutated(i) =>
             Sensors'[i].redrawPenging /\ ~Sensors'[i].isValuesSync]_vars

(* A step that mutated a config parameter of sensor i *)
ConfigMutated(i) ==
    /\ last'.op \in {"setConfig", "config", "addConfigParameter"}
    /\ last'.calls = <<i>>
    /\ last'.raised = "none"
    /\ last'.op = "config" => Sensors'[i].Configs # Sensors[i].Configs

(* C3: after a mutation of a config parameter (setConfig on an existing    *)
(* key, config overwriting a value, addConfigParameter) the sensor has     *)
(* isConfigsSync = false.                                                  *)
C3_ConfigMutationFlag ==
    [][\A i \in DOMAIN Sensors :
          ConfigMutated(i) => ~Sensors'[i].isConfigsSync]_vars

(* The id a response text carries, as the response parser reads it *)
CarriedId(text) ==
    getValueFromKeyValueLikeString(ToLower(Tail(text)), kId, "&")

(* A response that is empty, unmarked, or carries another id than uid *)
Mismatched(text, uid) ==
    \/ text = <<>>
    \/ text[1] # "?"
    \/ ~CarriedId(text).thrown /\ CarriedId(text).value # uid

(* C4: a synchronize that receives an empty response, one not starting     *)
(* with '?', or one with an id other than the sensor's UID returns without *)
(* raising, leaves isValuesSync false and leaves Values and Status as      *)
(* they were.                                                              *)
C4_MismatchedResponseIgnored ==
    [][\A i \in DOMAIN Sensors :
          (/\ last'.op = "synchronize"
           /\ last'.calls = <<i>>
           /\ \E j \in Received(out') : Mismatched(out'[j].text, Sensors[i].UID))
          => /\ last'.raised = "none"
             /\ ~Sensors'[i].isValuesSync
             /\ Sensors'[i].Values = Sensors[i].Values
             /\ Sensors'[i].Status = Sensors[i].Status]_vars

(* The response parses to a record with non-empty data and this uid *)
Accepted(text, uid) ==
    /\ ParseMetadata(text).raised = "none"
    /\ IsValid(ParseMetadata(text).md, uid)

DecodedStatus(status, old) ==
    IF status = <<"1">> THEN "OK"
    ELSE IF status = <<"-", "1">> THEN "ERROR"
    ELSE IF status = <<"0">> THEN "OFFLINE"
    ELSE old

(* C5: a synchronize that starts with isValuesSync false and receives a    *)
(* response parsing to non-empty data with the sensor's UID overwrites the *)
(* value parameters named in the payload, sets Status from the status      *)
(* field ("1" OK, "-1" ERROR, "0" OFFLINE, else unchanged) and ends with   *)
(* isValuesSync = true and redrawPenging = true.                           *)
C5_AcceptedResponseApplied ==
    [][\A i \in DOMAIN Sensors : \A j \in Received(out') :
          (/\ last'.op = "synchronize"
           /\ last'.calls = <<i>>
           /\ ~Sensors[i].isValuesSync
           /\ Accepted(out'[j].text, Sensors[i].UID))
          => LET md == ParseMetadata(out'[j].text).md
             IN /\ last'.raised = "none"
                /\ Sensors'[i].isValuesSync
                /\ Sensors'[i].redrawPenging
                /\ Sensors'[i].Status = DecodedStatus(md.Status, Sensors[i].Status)
                /\ \A k \in DOMAIN Sensors[i].Values :
                      LET v == getValueFromKeyValueLikeString(md.Data, k, "&")
                      IN ~v.thrown =>
                            Sensors'[i].Values[k].Value =
                               IF v.value = <<>> THEN Sensors[i].Values[k].Value
                               ELSE v.value]_vars

ConfigPushes(events) == {j \in DOMAIN events : IsConfigPush(events[j])}

(* C6: a synchronize call sends a config push exactly when isConfigsSync   *)
(* is false at its start, sends at most one, and when that send succeeds   *)
(* isConfigsSync is true afterwards.                                       *)
C6_ConfigPushIffUnsynced ==
    [][\A i \in DOMAIN Sensors :
          (last'.op \in SyncOps /\ last'.calls = <<i>>)
          => /\ (ConfigPushes(out') # {}) <=> ~Sensors[i].isConfigsSync
             /\ Cardinality(ConfigPushes(out')) <= 1
             /\ \A j \in ConfigPushes(out') :
                   out'[j].thrown = <<>> => Sensors'[i].isConfigsSync]_vars

(* C6 witness: a synchronize has pushed the configuration, the send        *)
(* succeeded and isConfigsSync is true.                                    *)
C6_Witness ==
    /\ last.op = "synchronize"
    /\ \E j \in ConfigPushes(out) : out[j].thrown = <<>>
    /\ Sensors[1].isConfigsSync

TimedOut(events) == \E j \in Received(events) : events[j].text = <<>>

(* C7: after a synchronize in which the receive returned the empty string  *)
(* isValuesSync is false and isConfigsSync is true; and a synchronize that *)
(* starts in such a state sends the pull request ?UPDATE&id=<uid> first,   *)
(* sends no config push and leaves isConfigsSync true.                     *)
C7_TimeoutRetriesPullOnly ==
    [][\A i \in DOMAIN Sensors :
          (last'.op \in SyncOps /\ last'.calls = <<i>>)
          => /\ TimedOut(out') =>
                   ~Sensors'[i].isValuesSync /\ Sensors'[i].isConfigsSync
             /\ (~Sensors[i].isValuesSync /\ Sensors[i].isConfigsSync)
                   => /\ out' # <<>>
                      /\ out'[1].ev = "send"
                      /\ out'[1].text = updateRequest(Sensors[i])
                      /\ ConfigPushes(out') = {}
                      /\ Sensors'[i].isConfigsSync]_vars

(* C7 witness: a synchronize that began with the pull request, so with the *)
(* configuration already pushed by an earlier call, and timed out.         *)
C7_Witness ==
    /\ last.op = "synchronize"
    /\ out # <<>>
    /\ out[1] = SendEvent(updateRequest(Sensors[1]), <<>>)
    /\ TimedOut(out)
    /\ ~Sensors[1].isValuesSync
    /\ Sensors[1].isConfigsSync

----------------------------------------------------------------------------
(* The manager as a state machine: the collection and its operations *)

UidInputs == {<<"0">>, <<"2">>, <<"9">>}
tUnknown == <<"D", "A", "C">>

(* Texts a gateway may answer to the discovery request *)
DiscoveryTexts ==
    {<<>>,
     <<"0">> \o <<":">> \o tADC,
     Q \o <<"0">> \o <<":">> \o tADC,
     Q \o <<"0">> \o <<":">> \o tADC \o AMP \o <<"2">> \o <<":">> \o tTH,
     Q \o <<"0">> \o <<":">> \o tADC \o AMP \o <<"0">> \o <<":">> \o tTH,
     Q \o <<"0">> \o <<":">> \o tUnknown \o AMP \o AMP \o <<"2">> \o <<":">> \o tTH}

(* What the transport does in one call of the manager's own exchange *)
ManagerTransports(texts) ==
    {[sendCfg |-> <<>>, sendUpd |-> f, recv |-> [text |-> <<>>, thrown |-> <<>>]] :
        f \in Faults \ {<<>>}}
    \cup {[sendCfg |-> <<>>, sendUpd |-> <<>>, recv |-> [text |-> x, thrown |-> <<>>]] :
        x \in texts}

(* What the transport does while the manager synchronizes sensor s: the    *)
(* device answers nothing, answers with a new value, answers with a text   *)
(* cut off after a key, or the first send fails                            *)
SensorTransports(s) ==
    LET ok(x) == [sendCfg |-> <<>>, sendUpd |-> <<>>,
                  recv |-> [text |-> x, thrown |-> <<>>]]
        over(id, key) ==
            {ok(<<>>),
             ok(Q \o Join(<<id, Pair(kStatus, <<"1">>), Pair(key, NewValue)>>)),
             ok(Q \o Join(<<id, key>>)),
             [sendCfg |-> IF s.isConfigsSync THEN <<>> ELSE <<ERROR_CODE>>,
              sendUpd |-> IF s.isConfigsSync THEN <<ERROR_CODE>> ELSE <<>>,
              recv |-> [text |-> <<>>, thrown |-> <<>>]]}
    IN IF s.isConfigsSync /\ s.isValuesSync THEN {ok(<<>>)}
       ELSE over(Pair(kId, s.UID), SortedKeys(DOMAIN s.Values)[1])

(* Requests handed to manage *)
ManageRequests ==
    LET upd == Pair(kValue, NewValue)
        ty == Pair(kType, tADC)
    IN {<<>>,
        Join(<<Pair(kId, <<"0">>), ty, upd>>),
        Q \o Join(<<Pair(kId, <<"0">>), ty, upd>>),
        Q \o Join(<<Pair(kId, <<"0">>), upd>>),
        Q \o Join(<<Pair(kId, <<"9">>), ty, upd>>),
        Q \o Join(<<Pair(kId, <<"9">>), kType>>),
        Q \o Join(<<Pair(kId, <<"2">>), Pair(kType, tTH), Pair(kTemperature, NewValue)>>),
        Q \o Join(<<ty, upd>>)}

(* Texts a gateway may answer to the batch pull request *)
BatchTexts ==
    {<<>>,
     Q \o Join(<<Pair(kId, <<"0">>), Pair(kValue, NewValue)>>),
     Q \o Join(<<Pair(kId, <<"0">>), Pair(kValue, NewValue)>>)
       \o Q \o Join(<<Pair(kId, <<"2">>), Pair(kTemperature, NewValue)>>),
     Q \o Join(<<Pair(kId, <<"0">>), kValue>>)}

Orders == [i \in DOMAIN Sensors |-> KeyOrders(DOMAIN Sensors[i].Values)]

(* The manager after construction and init(true) with a gateway that      *)
(* answered the discovery request                                          *)
InitManager ==
    /\ \E tr \in ManagerTransports({x \in DiscoveryTexts : x # <<>> /\ x[1] = "?"}) :
          Sensors = init(<<>>, TRUE, tr).sensors
    /\ out = <<>>
    /\ last = Call("init", <<>>, "none", <<>>)

MDone(r, op, arg) ==
    /\ Sensors' = r.sensors
    /\ out' = r.out
    /\ last' = Call(op, arg, r.raised, r.calls)

MSync ==
    \E id \in UidInputs :
        \/ /\ getSensor(Sensors, id) = 0
           /\ MDone(sync(Sensors, id, <<>>, <<>>), "sync", id)
        \/ \E i \in {getSensor(Sensors, id)} \ {0} :
              \E tr \in SensorTransports(Sensors[i]), order \in Orders[i] :
                  MDone(sync(Sensors, id, tr, order), "sync", id)

MPrint ==
    \/ \E uid \in UidInputs : MDone(print(Sensors, uid), "print", uid)
    \/ MDone(printAll(Sensors), "print", <<>>)

MRedraw == MDone(redraw(Sensors), "redraw", <<>>)

MResyncEach ==
    \E trs \in [DOMAIN Sensors -> UNION {SensorTransports(Sensors[i]) : i \in DOMAIN Sensors}] :
        /\ \A i \in DOMAIN Sensors : trs[i] \in SensorTransports(Sensors[i])
        /\ \E orders \in [DOMAIN Sensors -> UNION {Orders[i] : i \in DOMAIN Sensors}] :
              /\ \A i \in DOMAIN Sensors : orders[i] \in Orders[i]
              /\ MDone(resyncEach(Sensors, trs, orders), "resyncEach", <<>>)

MResync ==
    \E tr \in ManagerTransports(BatchTexts) :
        \E orders \in [DOMAIN Sensors -> UNION {Orders[i] : i \in DOMAIN Sensors}] :
              /\ \A i \in DOMAIN Sensors : orders[i] \in Orders[i]
              /\ MDone(resync(Sensors, tr, orders), "resync", <<>>)

MManage ==
    \E request \in ManageRequests :
        \E orders \in [DOMAIN Sensors -> UNION {Orders[i] : i \in DOMAIN Sensors}] :
              /\ \A i \in DOMAIN Sensors : orders[i] \in Orders[i]
              /\ MDone(manage(Sensors, request, orders), "manage", request)

NextManager ==
    \/ MSync
    \/ MPrint
    \/ MRedraw
    \/ MResyncEach
    \/ MResync
    \/ MManage

SpecManager == InitManager /\ [][NextManager]_vars

----------------------------------------------------------------------------
(* Properties of the manager, over SpecManager *)

(* C8: resync calls synchronize on every sensor of the collection, in      *)
(* collection order, whatever happened while an earlier sensor was         *)
(* synchronized.                                                           *)
C8_ResyncReachesEverySensor ==
    [][last'.op = "resyncEach"
          => last'.calls = [i \in DOMAIN Sensors |-> i]]_vars

(* C9: manage, resync, print and redraw propagate no exception to their    *)
(* caller, whatever the request and the response are.                      *)
C9_ManagerNeverRaises ==
    last.op \in {"manage", "resync", "resyncEach", "print", "redraw"}
       => last.raised = "none"

(* The uid a request carries, as the request parser reads it *)
RequestedId(request) ==
    IF request = <<>> THEN [thrown |-> FALSE, value |-> <<>>]
    ELSE getValueFromKeyValueLikeString(Tail(request), kId, "&")

(* C10: manage on a request whose uid is the UID of no sensor of the       *)
(* collection returns without raising and leaves the collection and every  *)
(* sensor as they were.                                                    *)
C10_UnknownUidChangesNothing ==
    [][(/\ last'.op = "manage"
        /\ ~RequestedId(last'.arg).thrown
        /\ \A i \in DOMAIN Sensors : Sensors[i].UID # RequestedId(last'.arg).value)
          => /\ last'.raised = "none"
             /\ Sensors' = Sensors]_vars

(* The generic update message ?id=<uid>&<key>=<value>, without type *)
GenericUpdate(uid, key, value) == Q \o Join(<<Pair(kId, uid), Pair(key, value)>>)

(* C11: manage on ?id=<uid>&<key>=<value>, uid the UID of a sensor of the  *)
(* collection and key one of its value parameters, sets that parameter to  *)
(* value and modifies no other sensor.                                     *)
C11_GenericUpdateApplied ==
    [][\A i \in DOMAIN Sensors : \A k \in DOMAIN Sensors[i].Values :
          (/\ last'.op = "manage"
           /\ last'.arg = GenericUpdate(Sensors[i].UID, k, NewValue)
           /\ getSensor(Sensors, Sensors[i].UID) = i)
          => /\ Sensors'[i].Values[k].Value = NewValue
             /\ \A j \in DOMAIN Sensors \ {i} : Sensors'[j] = Sensors[j]]_vars


----------------------------------------------------------------------------
(* The collection as a state machine: construction, init, addSensor,       *)
(* erase and lookups                                                       *)

MaxSensors == 3

(* Further discovery answers: the bare marker, a list of unknown types     *)
(* only, and two-segment lists                                             *)
EdgeDiscoveryTexts ==
    {Q,
     Q \o <<"0">> \o <<":">> \o tUnknown,
     Q \o <<"0">> \o <<":">> \o tADC \o AMP \o <<"1">> \o <<":">> \o tTH,
     Q \o <<"0">> \o <<":">> \o tADC \o AMP \o <<"1">> \o <<":">>
       \o <<"U", "n", "k", "n", "o", "w", "n">>}

(* The manager after construction *)
InitCollection ==
    /\ Sensors = <<>>
    /\ out = <<>>
    /\ last = Call("SensorManager", <<>>, "none", <<>>)

MInitFixed == MDone(init(Sensors, FALSE, <<>>), "init", <<>>)

MInitRequest ==
    \E tr \in ManagerTransports(DiscoveryTexts \cup EdgeDiscoveryTexts) :
        MDone(init(Sensors, TRUE, tr), "init", initRequest)

MAddSensor ==
    /\ Len(Sensors) < MaxSensors
    /\ \E type \in {tADC, tTH, tUnknown}, uid \in {<<"0">>, <<"2">>} :
          MDone(MResult(addSensor(Sensors, createSensorByType(type, uid)),
                        "none", <<>>, <<>>), "addSensor", uid)

MErase == MDone(erase(Sensors), "erase", <<>>)

MLookup == \E uid \in UidInputs : MDone(print(Sensors, uid), "print", uid)

NextCollection ==
    \/ MInitFixed
    \/ MInitRequest
    \/ MAddSensor
    \/ MErase
    \/ MLookup

SpecCollection == InitCollection /\ [][NextCollection]_vars

----------------------------------------------------------------------------
(* Properties of the collection, over SpecCollection *)

(* C12: after erase, from any state of the manager, the collection is      *)
(* empty and getSensor returns nullptr for every uid, and this stays so    *)
(* until a later init or addSensor.                                        *)
C12_EraseEmpties ==
    [][/\ last'.op = "erase"
          => /\ Sensors' = <<>>
             /\ \A uid \in UidInputs : getSensor(Sensors', uid) = 0
       /\ (Sensors = <<>> /\ last'.op \notin {"init", "addSensor"})
          => /\ Sensors' = <<>>
             /\ last'.calls = <<>>]_vars

(* erase has deleted the three sensors of the fixed list *)
C12_Witness ==
    /\ last.op = "erase"
    /\ Len(last.calls) = 3
    /\ Sensors = <<>>

(* C13: after init has returned, with either flag and whatever the gateway *)
(* answered to the discovery request, the collection is not empty, and an  *)
(* answer without the leading marker yields the fixed list.                *)
C13_InitNeverEmpty ==
    [][(last'.op = "init" /\ last'.raised = "none")
          => /\ Sensors' # <<>>
             /\ (/\ Len(out') = 2
                 /\ (out'[2].text = <<>> \/ out'[2].text[1] # "?"))
                => Sensors' = createSensorList]_vars

(* The sensors a discovery string yields: UID and Type of each, in order *)
Listed(sensors) == [i \in DOMAIN sensors |-> <<sensors[i].UID, sensors[i].Type>>]

(* The text between two positions of a string, both excluded *)
Between(s, a, b) == SubSeq(s, a + 1, b - 1)

(* What the discovery format asks for: the segments between '&' taken in   *)
(* order, each non-empty segment of a known type giving <<uid, type>> with  *)
(* uid the text before its first ':' and type the text after it            *)
RECURSIVE Expected(_)
Expected(text) ==
    LET amp == FindFrom(text, AMP, 1)
        seg == IF amp = 0 THEN text ELSE SubSeq(text, 1, amp - 1)
        rest == IF amp = 0 THEN <<>> ELSE SubSeq(text, amp + 1, Len(text))
        colon == FindFrom(seg, <<":">>, 1)
        one == IF seg # <<>> /\ colon # 0
                  /\ Between(seg, colon, Len(seg) + 1) \in {tADC, tTH}
               THEN <<<<Between(seg, 0, colon), Between(seg, colon, Len(seg) + 1)>>>>
               ELSE <<>>
    IN IF text = <<>> THEN <<>> ELSE one \o Expected(rest)

(* C14: a discovery string ?id1:Type1&id2:Type2... yields, in segment      *)
(* order, exactly one sensor per non-empty segment of a known type, its    *)
(* UID the text before the first ':' and its Type that type; segments of   *)
(* unknown type are skipped.                                               *)
C14_DiscoveryBuildsList ==
    [][(/\ last'.op = "init" /\ last'.raised = "none"
        /\ Len(out') = 2 /\ out'[2].text # <<>> /\ out'[2].text[1] = "?")
          => Listed(Sensors') = Expected(Tail(out'[2].text))]_vars

(* ?0:ADC&1:TH has yielded the sensors "0" of type ADC and "1" of type TH *)
C14_Witness ==
    /\ last.op = "init"
    /\ Len(out) = 2
    /\ out[2].text = Q \o <<"0">> \o <<":">> \o tADC \o AMP \o <<"1">> \o <<":">> \o tTH
    /\ Listed(Sensors) = <<<<<<"0">>, tADC>>, <<<<"1">>, tTH>>>>

(* ?0:ADC&1:Unknown has yielded the single sensor "0" *)
C14_WitnessUnknown ==
    /\ last.op = "init"
    /\ Len(out) = 2
    /\ out[2].text = Q \o <<"0">> \o <<":">> \o tADC \o AMP \o <<"1">> \o <<":">>
                       \o <<"U", "n", "k", "n", "o", "w", "n">>
    /\ Listed(Sensors) = <<<<<<"0">>, tADC>>>>

(* C15: in every state of the manager reached through init, addSensor and  *)
(* erase, no two sensors of the collection have the same UID.              *)
C15_UidsUnique ==
    \A i, j \in DOMAIN Sensors : Sensors[i].UID = Sensors[j].UID => i = j

----------------------------------------------------------------------------
(* Lookups, over SpecManager *)

(* The uid an operation addresses: its argument, or what the request       *)
(* parser reads after "id" in the request                                  *)
AddressedUid(call) ==
    IF call.op = "manage" THEN RequestedId(call.arg).value ELSE call.arg

(* The earliest sensor of the collection with this UID, 0 when none has it *)
Earliest(uid) ==
    IF \A i \in DOMAIN Sensors : Sensors[i].UID # uid THEN 0
    ELSE CHOOSE i \in DOMAIN Sensors :
            /\ Sensors[i].UID = uid
            /\ \A j \in 1..(i - 1) : Sensors[j].UID # uid

(* C16: getSensor returns the first sensor in collection order with the    *)
(* uid and nullptr when there is none; sync(id), print(uid) and manage     *)
(* call into and change no sensor but that one, also when a later sensor   *)
(* has the same UID.                                                       *)
C16_FirstMatchOnly ==
    [][(last'.op \in {"sync", "print", "manage"} /\ last'.arg # <<>>)
          => /\ getSensor(Sensors, AddressedUid(last')) = Earliest(AddressedUid(last'))
             /\ \A k \in DOMAIN last'.calls :
                   last'.calls[k] = Earliest(AddressedUid(last'))
             /\ \A j \in DOMAIN Sensors \ {Earliest(AddressedUid(last'))} :
                   Sensors'[j] = Sensors[j]
             /\ Len(Sensors') = Len(Sensors)]_vars

(* manage has updated the first of two sensors with UID "0" and left the   *)
(* second as it was created                                                *)
C16_Witness ==
    /\ Len(Sensors) = 2
    /\ Sensors[1].UID = Sensors[2].UID
    /\ last.op = "manage"
    /\ last.calls = <<1>>
    /\ Sensors[1].Values[kValue].Value = NewValue
    /\ Sensors[2] = NewTH(Sensors[2].UID)

----------------------------------------------------------------------------
(* Further properties of the sensor, over Spec *)

(* C17: after setError(err), from any prior state of the sensor, Status is *)
(* recomputed from the stored error: OK when it is null, OK when its code  *)
(* is WARNING_CODE, ERROR otherwise.                                       *)
C17_SetErrorRecomputesStatus ==
    [][\A i \in DOMAIN Sensors :
          (last'.op = "setError" /\ last'.calls = <<i>>)
          => Sensors'[i].Status =
                IF Sensors'[i].Error = <<>> \/ Sensors'[i].Error[1] = WARNING_CODE
                THEN "OK" ELSE "ERROR"]_vars

----------------------------------------------------------------------------
(* The parameter tables as a state machine: the calls that write Configs   *)
(* and Values, each recorded with the key or text handed to it, next to    *)
(* the calls that move the flags                                           *)

(* Texts handed to config and update: every key, one key of two, one key   *)
(* behind a foreign pair, one key followed by a key without value, and no  *)
(* key at all                                                              *)
TableTexts(keyset) ==
    LET over(keys) ==
            {Join([i \in 1..Len(keys) |-> Pair(keys[i], NewValue)]),
             Pair(keys[1], NewValue),
             Pair(keys[Len(keys)], NewValue),
             Join(<<Pair(kId, <<"0">>), Pair(keys[Len(keys)], NewValue)>>),
             Join(<<Pair(keys[1], NewValue), keys[Len(keys)]>>),
             <<"b", "l", "b", "o", "s", "t">>,
             <<>>}
    IN over(SortedKeys(keyset))

CallSetConfig ==
    \E i \in DOMAIN Sensors :
      \E k \in KeyInputs :
        DoneWith(i, Local(setConfig(Sensors[i], k, NewValue)), "setConfig", k)

CallSetValue ==
    \E i \in DOMAIN Sensors :
      \E k \in KeyInputs :
        DoneWith(i, Local(setValue(Sensors[i], k, NewValue)), "setValue", k)

(* Texts that name a key of the ADC in lower case and with a capital *)
CaseTexts ==
    {Pair(<<"R">> \o Tail(kResolution), <<"1", "0">>),
     Pair(kResolution, <<"1", "0">>),
     Pair(<<"V">> \o Tail(kValue), <<"2", "5", "5">>),
     Pair(kValue, <<"2", "5", "5">>)}

CallConfig ==
    \E i \in DOMAIN Sensors :
      \E cfg \in TableTexts(DOMAIN Sensors[i].Configs) \cup CaseTexts :
        DoneWith(i, Local(config(Sensors[i], cfg)), "config", cfg)

CallUpdate ==
    \E i \in DOMAIN Sensors :
      \E upd \in TableTexts(DOMAIN Sensors[i].Values) \cup CaseTexts,
       order \in KeyOrders(DOMAIN Sensors[i].Values) :
        DoneWith(i, Local(update(Sensors[i], upd, order)), "update", upd)

(* getValue<int>(key); out holds what it returned *)
CallGetValue ==
    \E i \in DOMAIN Sensors :
      \E k \in KeyInputs :
        LET returned(r) ==
                /\ Sensors' = Sensors
                /\ out' = <<[ev |-> "return", value |-> r.value]>>
                /\ last' = Call("getValue", k, r.raised, <<i>>)
        IN returned(getValue(Sensors[i], k))

NextTables ==
    \/ CallSetConfig
    \/ CallSetValue
    \/ CallConfig
    \/ CallUpdate
    \/ CallGetValue
    \/ Synchronize
    \/ Draw

SpecTables == Init /\ [][NextTables]_vars

----------------------------------------------------------------------------
(* Properties of the parameter tables, over SpecTables *)

(* The keys of a table for which the text holds a value *)
MatchedKeys(table, text) ==
    {k \in DOMAIN table :
        LET r == getValueFromKeyValueLikeString(text, k, "&")
        IN ~r.thrown /\ r.value # <<>>}

(* The table a call writes and the error it names when a key is missing *)
TableOf(s, op) == IF op \in {"config", "setConfig"} THEN s.Configs ELSE s.Values
NotFoundOf(op) ==
    IF op \in {"config", "setConfig"} THEN "ConfigurationNotFoundException"
    ELSE "ValueNotFoundException"

(* C18: config(cfg) fails with configuration-not-found, and update(upd)    *)
(* with value-not-found, exactly when the text matches no key of the       *)
(* table.                                                                  *)
C18_NotFoundIffNoMatch ==
    [][\A i \in DOMAIN Sensors :
          (last'.op \in {"config", "update"} /\ last'.calls = <<i>>)
          => (last'.raised = NotFoundOf(last'.op)
                <=> MatchedKeys(TableOf(Sensors[i], last'.op), last'.arg) = {})]_vars

(* A call of config or update on sensor i with a text that matches some    *)
(* key of the table, and not every key                                     *)
PartialMatch(i) ==
    /\ last'.op \in {"config", "update"}
    /\ last'.calls = <<i>>
    /\ MatchedKeys(TableOf(Sensors[i], last'.op), last'.arg) # {}
    /\ MatchedKeys(TableOf(Sensors[i], last'.op), last'.arg)
          # DOMAIN TableOf(Sensors[i], last'.op)

(* C19: config and update on a text that matches some and not all keys of  *)
(* the table return without raising, overwrite the matched parameters      *)
(* with the values of the text and leave the others unchanged, in whatever *)
(* order the table is iterated.                                            *)
C19_PartialMatchApplied ==
    [][\A i \in DOMAIN Sensors :
          PartialMatch(i)
          => /\ last'.raised = "none"
             /\ \A k \in DOMAIN TableOf(Sensors[i], last'.op) :
                   TableOf(Sensors'[i], last'.op)[k].Value =
                      IF k \in MatchedKeys(TableOf(Sensors[i], last'.op), last'.arg)
                      THEN getValueFromKeyValueLikeString(last'.arg, k, "&").value
                      ELSE TableOf(Sensors[i], last'.op)[k].Value]_vars

(* A call of setConfig or setValue on sensor i *)
SetterCalled(i) ==
    /\ last'.op \in {"setConfig", "setValue"}
    /\ last'.calls = <<i>>

(* C20: setConfig(key, value) and setValue(key, value) with a key absent   *)
(* from their table fail with the not-found error of the table and leave   *)
(* the sensor, its parameters and flags included, as it was, inserting no  *)
(* key; with a key present they return and overwrite only that             *)
(* parameter's Value.                                                      *)
C20_SettersByKey ==
    [][\A i \in DOMAIN Sensors :
          SetterCalled(i)
          => IF last'.arg \notin DOMAIN TableOf(Sensors[i], last'.op)
             THEN /\ last'.raised = NotFoundOf(last'.op)
                  /\ Sensors'[i] = Sensors[i]
             ELSE /\ last'.raised = "none"
                  /\ DOMAIN Sensors'[i].Configs = DOMAIN Sensors[i].Configs
                  /\ DOMAIN Sensors'[i].Values = DOMAIN Sensors[i].Values
                  /\ TableOf(Sensors'[i], last'.op)[last'.arg].Value = NewValue
                  /\ \A op \in {"setConfig", "setValue"} :
                       \A k \in DOMAIN TableOf(Sensors[i], op) :
                          (op # last'.op \/ k # last'.arg)
                          => TableOf(Sensors'[i], op)[k] = TableOf(Sensors[i], op)[k]
                  /\ \A f \in {"Unit", "DataType"} :
                        TableOf(Sensors'[i], last'.op)[last'.arg][f]
                           = TableOf(Sensors[i], last'.op)[last'.arg][f]]_vars

(* setValue has failed on a key the table of a TH does not hold, after a   *)
(* setValue that overwrote one of its two values                           *)
C20_Witness ==
    /\ last.op = "setValue"
    /\ last.arg = kOffset
    /\ last.raised = "ValueNotFoundException"
    /\ Sensors[1].Type = tTH
    /\ Sensors[1].Values[kHumidity].Value = NewValue
    /\ Sensors[1].Values[kTemperature].Value # NewValue

----------------------------------------------------------------------------
(* The codec as a state machine: the pure functions of helpers.cpp and     *)
(* sensors.cpp applied to texts drawn from bounded sets.  out holds the     *)
(* result of the call, last the function and its arguments.                *)

MaxPairs == 2

CodecKeys == {kId, kHumidity, kValue, kType}
CodecValues == {NewValue, <<"1", "2">>}

(* Sequences of distinct keys, and the values given to them *)
KeySeqs ==
    {ks \in UNION {[1..n -> CodecKeys] : n \in 1..MaxPairs} :
        \A i, j \in DOMAIN ks : ks[i] = ks[j] => i = j}

PairString(ks, vs) == Join([i \in DOMAIN ks |-> Pair(ks[i], vs[i])])

InitCodec ==
    /\ Sensors = <<>>
    /\ out = <<>>
    /\ last = Call("none", <<>>, "none", <<>>)

Returned(r, op, arg) ==
    /\ out' = <<r>>
    /\ last' = Call(op, arg, r.raised, <<>>)

(* getValueFromKeyValueLikeString(source, key, '&') on a string of pairs   *)
(* and the key of one of them                                              *)
Extract ==
    /\ UNCHANGED Sensors
    /\ \E ks \in KeySeqs :
         \E vs \in [DOMAIN ks -> CodecValues], i \in DOMAIN ks :
           LET returned(r) ==
                   Returned([raised |-> IF r.thrown THEN "out_of_range" ELSE "none",
                             value |-> r.value],
                            "getValueFromKeyValueLikeString",
                            <<PairString(ks, vs), ks[i]>>)
           IN returned(getValueFromKeyValueLikeString(PairString(ks, vs), ks[i], "&"))

(* Parameter maps: a key alone, and two keys of which one may occur inside *)
(* the other or inside the prefix of the message                           *)
kMaxValue == <<"m", "a", "x">> \o kValue
CodecMaps ==
    UNION {{[k \in keys |-> Param(f[k], <<>>, <<>>)] : f \in [keys -> CodecValues]} :
              keys \in {{kResolution}, {kPrecision}, {kTemperature, kHumidity},
                        {kValue, kMaxValue}, {kResolution, kId}}}

(* The message BaseSensor::syncConfigs builds for a sensor with this       *)
(* Configs map, and getValueFromKeyValueLikeString on it for one key of    *)
(* the map                                                                 *)
EncodeExtract ==
    /\ UNCHANGED Sensors
    /\ \E table \in CodecMaps, uid \in {<<"0">>, <<"2">>} :
         \E k \in DOMAIN table :
           LET returned(r) ==
                   Returned([raised |-> IF r.thrown THEN "out_of_range" ELSE "none",
                             value |-> r.value],
                            "encode", <<table, k>>)
           IN returned(getValueFromKeyValueLikeString(
                           configRequest([BaseSensor(uid) EXCEPT !.Configs = table]),
                           k, "&"))

(* Messages handed to the two parsers: empty, without the marker, the bare *)
(* marker, a request and a response in lower case, a response that names   *)
(* the type in upper case, and a text cut off behind a key                 *)
CodecMessages ==
    LET id == Pair(kId, <<"0">>)
        upd == Pair(kValue, NewValue)
    IN {<<>>,
        Join(<<id, upd>>),
        Q,
        Q \o Join(<<id, Pair(kType, ToLower(tADC)), upd>>),
        Q \o Join(<<id, Pair(kStatus, <<"1">>), upd>>),
        Q \o Join(<<id, Pair(kType, tADC), upd>>),
        Q \o Join(<<upd, kId>>)}

(* ParseMetadata of sensors.cpp in its strict form, for inbound requests *)
ParseStrict ==
    /\ UNCHANGED Sensors
    /\ \E message \in CodecMessages :
          Returned(ParseRequest(message), "ParseRequest", message)

(* ParseMetadata of sensors.cpp in its lenient form, for device responses *)
ParseLenient ==
    /\ UNCHANGED Sensors
    /\ \E message \in CodecMessages :
          Returned(ParseMetadata(message), "ParseMetadata", message)

(* getValueFromKeyValueLikeString on texts in which the key is absent, or  *)
(* stands at the very end with nothing or one character after it           *)
EndTexts ==
    {<<>>, kId, kId \o EQ, Pair(kId, <<"0">>), kValue,
     Join(<<Pair(kValue, NewValue), kId>>), Join(<<Pair(kValue, NewValue), kId \o EQ>>)}

ExtractAtEnd ==
    /\ UNCHANGED Sensors
    /\ \E source \in EndTexts, key \in {kId, kType} :
         LET returned(r) ==
                 Returned([raised |-> IF r.thrown THEN "out_of_range" ELSE "none",
                           value |-> r.value],
                          "getValueFromKeyValueLikeString", <<source, key>>)
         IN returned(getValueFromKeyValueLikeString(source, key, "&"))

NextCodec ==
    \/ ExtractAtEnd
    \/ Extract
    \/ EncodeExtract
    \/ ParseStrict
    \/ ParseLenient

SpecCodec == InitCodec /\ [][NextCodec]_vars

----------------------------------------------------------------------------
(* Properties of the codec, over SpecCodec *)

(* The value of the pair with this key in a string of pairs joined by '&' *)
ValueOfPair(source, key) ==
    LET pieces == splitString(source, "&")
        at == CHOOSE j \in DOMAIN pieces : StartsWith(pieces[j], key \o EQ)
    IN SubSeq(pieces[at], Len(key) + 2, Len(pieces[at]))

(* The string holds a pair with this key *)
HasPair(source, key) ==
    \E j \in DOMAIN splitString(source, "&") :
        StartsWith(splitString(source, "&")[j], key \o EQ)

(* C21: for a string of key=value pairs joined by '&' and the key of one   *)
(* of the pairs, getValueFromKeyValueLikeString returns the value of that  *)
(* pair, wherever the pair stands in the string.                           *)
C21_ExtractReturnsPairValue ==
    [][(/\ last'.op = "getValueFromKeyValueLikeString"
        /\ HasPair(last'.arg[1], last'.arg[2]))
          => /\ last'.raised = "none"
             /\ out'[1].value = ValueOfPair(last'.arg[1], last'.arg[2])]_vars

(* C22: encoding a parameter map as prefix&k1=v1&k2=v2... in map order and *)
(* extracting a key of the map from the encoded string returns the value   *)
(* the map holds for that key.                                             *)
C22_EncodeExtractRoundTrip ==
    [][last'.op = "encode"
          => /\ last'.raised = "none"
             /\ out'[1].value = last'.arg[1][last'.arg[2]].Value]_vars

----------------------------------------------------------------------------
(* Messages of synchronize, over Spec *)

(* BaseSensor::getBasicComHeader *)
getBasicComHeader(s) == Q \o Pair(kType, s.Type) \o AMP \o Pair(kId, s.UID)

(* C23: the config push synchronize sends for a sensor of type T and uid U *)
(* is ?type=T&id=U followed by &key=value for every config parameter in    *)
(* Configs order, and no response is read for it.                          *)
C23_ConfigPushText ==
    [][\A i \in DOMAIN Sensors :
          (last'.op \in SyncOps /\ last'.calls = <<i>> /\ ~Sensors[i].isConfigsSync)
          => /\ out'[1].ev = "send"
             /\ out'[1].text = getBasicComHeader(Sensors[i])
                   \o encodeConfigs(Sensors[i].Configs,
                                    SortedKeys(DOMAIN Sensors[i].Configs))
             /\ Len(out') >= 2 => out'[2].ev = "send"]_vars

(* A message that starts with the marker *)
Marked(message) == Len(message) >= 1 /\ message[1] = "?"

(* C24: ParseMetadata on a message without the leading '?' fails with a    *)
(* format error in its strict form and returns the record with every field *)
(* empty in its lenient form; on a message with the marker the Data of the *)
(* record is the rest of the message after the marker, character for       *)
(* character.                                                              *)
C24_MarkerAndPayload ==
    [][/\ (last'.op = "ParseRequest" /\ ~Marked(last'.arg))
             => last'.raised = "Exception"
       /\ (last'.op = "ParseMetadata" /\ ~Marked(last'.arg))
             => last'.raised = "none" /\ out'[1].md = EmptyMetadata
       /\ (/\ last'.op \in {"ParseRequest", "ParseMetadata"}
           /\ Marked(last'.arg)
           /\ last'.raised = "none")
             => out'[1].md.Data = Tail(last'.arg)]_vars

C26_DrawClearsFlagOnly ==
    [][\A i \in DOMAIN Sensors :
          (last'.op = "draw" /\ last'.calls = <<i>>)
          => /\ last'.raised = "none"
             /\ ~Sensors[i].redrawPenging => Sensors'[i] = Sensors[i]
             /\ ~Sensors'[i].redrawPenging
             /\ Sensors'[i].Values = Sensors[i].Values
             /\ Sensors'[i].Configs = Sensors[i].Configs
             /\ Sensors'[i].Status = Sensors[i].Status
             /\ Sensors'[i].Error = Sensors[i].Error
             /\ Sensors'[i].isConfigsSync = Sensors[i].isConfigsSync
             /\ Sensors'[i].isValuesSync = Sensors[i].isValuesSync]_vars

(* draw has cleared the flag a successful value pull had set *)
C26_Witness ==
    /\ last.op = "draw"
    /\ ~Sensors[1].redrawPenging
    /\ Sensors[1].isValuesSync
    /\ Sensors[1].isConfigsSync

(* The keys of a table with the Unit and DataType registered under each *)
Kinds(table) == [k \in DOMAIN table |-> <<table[k].Unit, table[k].DataType>>]

(* C27: once a parameter is registered under a key, its DataType and Unit  *)
(* never change and the key sets of Configs and Values never change under  *)
(* config, update, setConfig, setValue and synchronize: those operations   *)
(* change only Value fields.                                               *)
C27_KindsNeverChange ==
    [][\A i \in DOMAIN Sensors :
          /\ Kinds(Sensors'[i].Configs) = Kinds(Sensors[i].Configs)
          /\ Kinds(Sensors'[i].Values) = Kinds(Sensors[i].Values)]_vars

(* A TH whose precision and temperature were overwritten and whose values  *)
(* were pulled, with the kinds it was constructed with                     *)
C27_Witness ==
    /\ Sensors[1].Type = tTH
    /\ Sensors[1].Configs[kPrecision].Value = NewValue
    /\ Sensors[1].Values[kTemperature].Value = NewValue
    /\ Sensors[1].isValuesSync
    /\ Kinds(Sensors[1].Values) = Kinds(NewTH(Sensors[1].UID).Values)
    /\ Kinds(Sensors[1].Values)[kTemperature] = <<"Celsia", "FLOAT">>

----------------------------------------------------------------------------
(* Further properties of synchronize, over Spec *)

IsPull(e) ==
    e.ev = "send" /\ StartsWith(e.text, Q \o <<"U", "P", "D", "A", "T", "E">>)

Pulls(events) == {j \in DOMAIN events : IsPull(events[j])}

(* C28: on a sensor with isConfigsSync and isValuesSync both true,         *)
(* synchronize sends nothing, receives nothing and changes no field; a     *)
(* pull request is sent only when isValuesSync is false, and isValuesSync  *)
(* goes from true to false only in addValueParameter.                      *)
C28_SyncedSensorIsLeftAlone ==
    [][\A i \in DOMAIN Sensors :
          /\ (/\ last'.op \in SyncOps /\ last'.calls = <<i>>
              /\ Sensors[i].isConfigsSync /\ Sensors[i].isValuesSync)
                => /\ out' = <<>>
                   /\ last'.raised = "none"
                   /\ Sensors'[i] = Sensors[i]
          /\ (last'.op \in SyncOps /\ last'.calls = <<i>> /\ Pulls(out') # {})
                => ~Sensors[i].isValuesSync
          /\ (Sensors[i].isValuesSync /\ ~Sensors'[i].isValuesSync)
                => last'.op = "addValueParameter"]_vars

(* synchronize has run on a sensor with both flags true, after a pull that *)
(* stored a new value                                                      *)
C28_Witness ==
    /\ last.op = "synchronize"
    /\ out = <<>>
    /\ Sensors[1].isConfigsSync
    /\ Sensors[1].isValuesSync
    /\ \E k \in DOMAIN Sensors[1].Values : Sensors[1].Values[k].Value = NewValue

(* C29: in one synchronize call on a sensor with both sync flags false the *)
(* transport events are, in this order, the send of the config push, the   *)
(* send of the pull request ?UPDATE&id=<uid> and one receive; nothing is   *)
(* received before the pull request is sent, and the sequence ends at the  *)
(* first event that throws.                                                *)
C29_PushPullReceive ==
    [][\A i \in DOMAIN Sensors :
          (/\ last'.op \in SyncOps /\ last'.calls = <<i>>
           /\ ~Sensors[i].isConfigsSync /\ ~Sensors[i].isValuesSync)
          => /\ Len(out') \in 1..3
             /\ IsConfigPush(out'[1])
             /\ Len(out') >= 2 <=> out'[1].thrown = <<>>
             /\ Len(out') >= 2
                   => out'[2] = SendEvent(updateRequest(Sensors[i]), out'[2].thrown)
             /\ Len(out') = 3 <=> (Len(out') >= 2 /\ out'[2].thrown = <<>>)
             /\ Len(out') = 3 => out'[3].ev = "recv"]_vars

(* A synchronize that pushed, pulled and received a response *)
C29_Witness ==
    /\ last.op = "synchronize"
    /\ Len(out) = 3
    /\ IsConfigPush(out[1])
    /\ IsPull(out[2])
    /\ out[3].ev = "recv"
    /\ out[3].text # <<>>

(* A call on sensor i whose config push was sent and threw *)
PushFailed(i) ==
    /\ last'.op \in SyncOps
    /\ last'.calls = <<i>>
    /\ out' # <<>>
    /\ IsConfigPush(out'[1])
    /\ out'[1].thrown # <<>>

(* C30: when the send of the config push throws, isConfigsSync stays       *)
(* false, no pull request is sent and isValuesSync is unchanged;           *)
(* syncSensor stores the failure on the sensor with setError and raises    *)
(* nothing; and the next synchronize sends the config push again.          *)
C30_FailedPushIsRetried ==
    [][\A i \in DOMAIN Sensors :
          /\ PushFailed(i)
                => /\ ~Sensors'[i].isConfigsSync
                   /\ Len(out') = 1
                   /\ Sensors'[i].isValuesSync = Sensors[i].isValuesSync
                   /\ last'.op = "synchronize" => last'.raised = "Exception"
                   /\ last'.op = "syncSensor"
                         => /\ last'.raised = "none"
                            /\ Sensors'[i] = setError(Sensors[i], out'[1].thrown)
                            /\ Sensors'[i].Error = out'[1].thrown
                            /\ Sensors'[i].Status = "ERROR"
          /\ (/\ last'.op \in SyncOps /\ last'.calls = <<i>>
              /\ last.op = "syncSensor" /\ Sensors[i].Error # <<>>
              /\ ~Sensors[i].isConfigsSync)
                => out' # <<>> /\ IsConfigPush(out'[1])]_vars

(* syncSensor has stored the failure of the config push on the sensor *)
C30_Witness ==
    /\ last.op = "syncSensor"
    /\ Len(out) = 1
    /\ IsConfigPush(out[1])
    /\ out[1].thrown = <<ERROR_CODE>>
    /\ Sensors[1].Error = <<ERROR_CODE>>
    /\ ~Sensors[1].isConfigsSync

----------------------------------------------------------------------------
(* The batch resync, over SpecManager *)

(* The one-record batch response ?id=0&value=7 *)
BatchRecord == Q \o Join(<<Pair(kId, <<"0">>), Pair(kValue, NewValue)>>)

(* C31: in the batch resync, a record ?id=<uid>&<key>=<value> of the       *)
(* response whose uid is the UID of a sensor of the collection updates     *)
(* the matching value parameter of that sensor.                            *)
C31_BatchRecordApplied ==
    [][(/\ last'.op = "resync"
        /\ Len(out') = 2
        /\ out'[2].thrown = <<>>
        /\ out'[2].text = BatchRecord)
          => \A i \in DOMAIN Sensors :
                (getSensor(Sensors, <<"0">>) = i /\ kValue \in DOMAIN Sensors[i].Values)
                => Sensors'[i].Values[kValue].Value = NewValue]_vars

----------------------------------------------------------------------------
(* Sensors under any uid the factory accepts, synchronized against a       *)
(* device that echoes the uid and answers with one value                   *)

EchoUids == {<<"0">>, <<"a">>, <<"A">>, <<"S", "1">>}
EchoValues == {NewValue, <<"F", "F">>}

(* The response ?id=<uid>&status=1&<key>=<value> *)
EchoResponse(uid, key, value) ==
    Q \o Join(<<Pair(kId, uid), Pair(kStatus, <<"1">>), Pair(key, value)>>)

InitEcho ==
    /\ Sensors \in {createSensorByType(type, uid) :
                      type \in {tADC, tTH}, uid \in EchoUids}
    /\ out = <<>>
    /\ last = Call("create", <<>>, "none", <<1>>)

(* synchronize with a transport that does not fail and a device that       *)
(* answers with the sensor's own uid                                       *)
SyncEcho ==
    \E i \in DOMAIN Sensors :
      \E key \in DOMAIN Sensors[i].Values, value \in EchoValues,
         order \in KeyOrders(DOMAIN Sensors[i].Values) :
        DoneWith(i,
                 synchronize(Sensors[i],
                             [sendCfg |-> <<>>, sendUpd |-> <<>>,
                              recv |-> [text |-> EchoResponse(Sensors[i].UID, key, value),
                                        thrown |-> <<>>]],
                             order),
                 "synchronize", <<key, value>>)

NextEcho ==
    \/ SyncEcho
    \/ AddValueParameter
    \/ SetError
    \/ Draw

SpecEcho == InitEcho /\ [][NextEcho]_vars

(* C32: for a sensor of any uid, also one with upper-case letters, a       *)
(* response ?id=<uid>&status=1&<key>=<value> that echoes the uid and names *)
(* a value key of the sensor is accepted by synchronize: isValuesSync is   *)
(* true afterwards and the value is stored as it was sent.                 *)
C32_EchoedUidAccepted ==
    [][\A i \in DOMAIN Sensors :
          (/\ last'.op = "synchronize" /\ last'.calls = <<i>>
           /\ last'.arg # <<>>
           /\ ~Sensors[i].isValuesSync)
          => /\ last'.raised = "none"
             /\ Sensors'[i].isValuesSync
             /\ Sensors'[i].Values[last'.arg[1]].Value = last'.arg[2]]_vars

----------------------------------------------------------------------------
(* Keys that are absent or stand at the end of the text, over SpecCodec *)

(* C33: getValueFromKeyValueLikeString never raises; it returns the empty  *)
(* string when the key does not occur in the source, and when the key      *)
(* stands at the very end of the source with nothing after it.             *)
C33_ExtractNeverRaises ==
    [][last'.op = "getValueFromKeyValueLikeString"
          => /\ last'.raised = "none"
             /\ FindFrom(last'.arg[1], last'.arg[2], 1) = 0
                   => out'[1].value = <<>>]_vars

----------------------------------------------------------------------------
(* Repeated synchronization.  The caller keeps calling synchronize, through *)
(* syncSensor with a transport that may fail or deliver any text, and the  *)
(* transport delivers the echoing response again and again: weak fairness  *)
(* of the delivered calls.                                                 *)

SyncDelivered ==
    \E i \in DOMAIN Sensors :
      \E key \in DOMAIN Sensors[i].Values, value \in EchoValues,
         order \in KeyOrders(DOMAIN Sensors[i].Values) :
        \E r \in {synchronize(Sensors[i],
                      [sendCfg |-> <<>>, sendUpd |-> <<>>,
                       recv |-> [text |-> EchoResponse(Sensors[i].UID, key, value), thrown |-> <<>>]],
                      order)} :
          DoneWith(i, r, "synchronize", <<key, value>>)

(* The records a delivered synchronize call can leave in last *)
DeliveredCalls ==
    {Call("synchronize", <<key, value>>, raised, <<1>>) :
        key \in UNION {DOMAIN createSensorByType(type, <<"0">>)[1].Values : type \in {tADC, tTH}},
        value \in EchoValues,
        raised \in {"none", "Exception", "out_of_range"}}

(* A step that completes a delivered synchronize call: within NextRetry    *)
(* these are the steps of SyncDelivered that change last, and one is       *)
(* possible in every state.                                                *)
Delivered == \E c \in DeliveredCalls : last' = c

NextRetry ==
    \/ SyncDelivered
    \/ SyncSensor
    \/ AddValueParameter

SpecRetry == InitEcho /\ [][NextRetry]_vars /\ WF_last(Delivered)

(* C34: when synchronize is called again and again and the transport       *)
(* delivers a well-formed response with the sensor's UID, the sensor       *)
(* reaches isConfigsSync = true and isValuesSync = true, whatever          *)
(* responses and errors came before.                                       *)
C34_EventuallySynchronized ==
    <>(\A i \in DOMAIN Sensors :
          Sensors[i].isConfigsSync /\ Sensors[i].isValuesSync)

----------------------------------------------------------------------------
(* The revision of config and update that throws its not-found error       *)

(* The loop of that revision over a table: every key is looked up in the   *)
(* text in iteration order, a non-empty value is stored at once, and value *)
(* keeps the result of the lookup made last                                *)
RECURSIVE lookupPairs(_, _, _, _, _)
lookupPairs(table, text, order, i, value) ==
    IF i > Len(order) THEN [table |-> table, raised |-> "none", value |-> value]
    ELSE LET assign(r) ==
                 IF r.thrown
                 THEN [table |-> table, raised |-> "out_of_range", value |-> value]
                 ELSE lookupPairs(IF r.value # <<>>
                                  THEN [table EXCEPT ![order[i]].Value = r.value]
                                  ELSE table,
                                  text, order, i + 1, r.value)
         IN assign(getValueFromKeyValueLikeString(text, order[i], "&"))

(* BaseSensor::config(cfg) of that revision: throws when value is empty    *)
(* after the loop, sets redrawPenging otherwise                            *)
configThrowing(s, cfg) ==
    LET finish(r) ==
            IF r.raised # "none"
            THEN [s |-> [s EXCEPT !.Configs = r.table], raised |-> r.raised]
            ELSE IF r.value = <<>>
            THEN [s |-> [s EXCEPT !.Configs = r.table],
                  raised |-> "ConfigurationNotFoundException"]
            ELSE [s |-> [s EXCEPT !.Configs = r.table, !.redrawPenging = TRUE],
                  raised |-> "none"]
    IN finish(lookupPairs(s.Configs, cfg, SortedKeys(DOMAIN s.Configs), 1, <<>>))

(* BaseSensor::update(upd) of that revision, order: the iteration order of *)
(* Values in this call                                                     *)
updateThrowing(s, upd, order) ==
    LET finish(r) ==
            IF r.raised # "none"
            THEN [s |-> [s EXCEPT !.Values = r.table], raised |-> r.raised]
            ELSE IF r.value = <<>>
            THEN [s |-> [s EXCEPT !.Values = r.table],
                  raised |-> "ValueNotFoundException"]
            ELSE [s |-> [s EXCEPT !.Values = r.table, !.redrawPenging = TRUE],
                  raised |-> "none"]
    IN finish(lookupPairs(s.Values, upd, order, 1, <<>>))

CallConfigThrowing ==
    \E i \in DOMAIN Sensors :
      \E cfg \in TableTexts(DOMAIN Sensors[i].Configs) \cup CaseTexts :
        DoneWith(i, Local(configThrowing(Sensors[i], cfg)), "config", cfg)

CallUpdateThrowing ==
    \E i \in DOMAIN Sensors :
      \E upd \in TableTexts(DOMAIN Sensors[i].Values) \cup CaseTexts,
         order \in KeyOrders(DOMAIN Sensors[i].Values) :
        DoneWith(i, Local(updateThrowing(Sensors[i], upd, order)), "update", upd)

NextThrowing ==
    \/ CallConfigThrowing
    \/ CallUpdateThrowing
    \/ CallSetValue
    \/ Draw

SpecThrowing == Init /\ [][NextThrowing]_vars

(* C35: a config(cfg) or update(upd) that raises its not-found error has   *)
(* modified no parameter of the sensor and has left redrawPenging as it    *)
(* was.                                                                    *)
C35_NotFoundIsAtomic ==
    [][(/\ last'.op \in {"config", "update"}
        /\ last'.raised \in {"ConfigurationNotFoundException",
                             "ValueNotFoundException"})
       => \A i \in DOMAIN Sensors :
            /\ Sensors'[i].Configs = Sensors[i].Configs
            /\ Sensors'[i].Values = Sensors[i].Values
            /\ Sensors'[i].redrawPenging = Sensors[i].redrawPenging]_vars

============================================================================
